---------------------------- MODULE Spec2Model ----------------------------
(***************************************************************************)
(* A model of the Genomic Analysis Tool: the exon edge finder              *)
(* (identify_exon_edges), the coordinate parser (parse_genomic_coordinate),*)
(* the batch loop of the second GUI version (analyze_genomic_data) and the *)
(* abundance sum (measure_transcription_abundance).                        *)
(*                                                                         *)
(* Conventions.                                                            *)
(*   - Python's None is the empty sequence <<>>, a value v is <<v>>.       *)
(*   - A coverage is a float in the code; here it is an integer number of  *)
(*     1/100000ths, so 0.5 is 50000 and 0.50001 is 50001.                  *)
(*   - A string is a sequence of characters; the characters SP and LF are  *)
(*     the space and the line feed.                                        *)
(*   - A field of a feed line is a token: an integer literal, a decimal    *)
(*     literal (with a fractional part) or other text.                     *)
(***************************************************************************)
EXTENDS Integers, Sequences, FiniteSets

VARIABLES
    junction_data,   \* the feed handed to identify_exon_edges: a sequence of lines
    junctions,       \* the list of (start, end, coverage) built from the feed
    idx,             \* position of the for loop in junctions (next record to visit)
    current_start,   \* None or the start of the open interval
    current_end,     \* None or the end of the open interval
    exon_edges,      \* the list of edges appended so far
    epc,             \* where identify_exon_edges is: parse, sort, scan, final, done, raised
    error,           \* the exception identify_exon_edges raised, or None
    variant,         \* which file's parse_genomic_coordinate runs
    genomic_coordinate, \* the string handed to parse_genomic_coordinate
    ppc,             \* where parse_genomic_coordinate is: call, returned, exited
    parse_return,    \* what it returned: None or the tuple
    parse_message,   \* what it showed the user: None or the channel and the text
    exit_code,       \* the status of sys.exit, or None
    bigwig_files,    \* the coverage sources handed to measure_transcription_abundance
    abundance,       \* the list of sums built so far
    ai,              \* position of its for loop in bigwig_files
    apc,             \* where it is: parse, loop, done, exited
    genomic_coordinates, \* the list handed to the batch analyze_genomic_data
    analyze_option,  \* the analysis chosen in the window
    bi,              \* position of the batch loop in genomic_coordinates
    output_text,     \* what the batch has inserted in the results window
    plotted,         \* the positions whose plot was drawn
    bpc              \* where the batch is: analyse, plot, done, exited

edgeVars == <<junction_data, junctions, idx, current_start, current_end,
              exon_edges, epc, error>>

parseVars == <<variant, genomic_coordinate, ppc, parse_return, parse_message, exit_code>>

abundVars == <<bigwig_files, abundance, ai, apc>>

batchVars == <<genomic_coordinates, analyze_option, bi, output_text, plotted, bpc>>

vars == <<edgeVars, parseVars, abundVars, batchVars>>

None == <<>>
Some(v) == <<v>>

(***************************************************************************)
(* Bounds of the model.                                                    *)
(***************************************************************************)
MaxRecords == 3

MaxDigits == 2

MaxValues == 2

MaxFiles == 2

MaxBatch == 4

Positions == {1, 2, 3}

(***************************************************************************)
(* Tokens and feed lines.                                                  *)
(***************************************************************************)
IntTok(n) == [kind |-> "int", val |-> n]
DecTok(n) == [kind |-> "dec", val |-> n]
TextTok == [kind |-> "text", val |-> 0]

\* int(s): an integer literal converts, anything else raises ValueError.
IntOk(tok) == tok.kind = "int"
IntOf(tok) == tok.val

\* float(s): integer and decimal literals convert; an integer literal n is n.0.
FloatOk(tok) == tok.kind \in {"int", "dec"}
FloatOf(tok) == IF tok.kind = "int" THEN tok.val * 100000 ELSE tok.val

\* A line, split on tabs: its number of fields and the fields 3, 4 and 14.
Line(nf, f3, f4, f14) == [nf |-> nf, f3 |-> f3, f4 |-> f4, f14 |-> f14]

\* The header line of the service: column names, no numbers.
HeaderLine == Line(18, TextTok, TextTok, TextTok)

\* ''.split('\t') is ['']: one empty field.
BlankLine == Line(1, TextTok, TextTok, TextTok)

\* The coverages 0.5, 0.50001 and 1 (written as an integer).
CoverageToks == {DecTok(50000), DecTok(50001), IntTok(1)}

GoodLines ==
    {Line(18, IntTok(s), IntTok(e), c) :
        s \in Positions, e \in Positions, c \in CoverageToks}

WellFormedLines == {l \in GoodLines : l.f3.val <= l.f4.val}

BadLines ==
    { Line(14, IntTok(1), IntTok(2), IntTok(1)),     \* too few fields
      Line(18, TextTok, IntTok(2), IntTok(1)),       \* field 3 not a number
      Line(18, IntTok(1), TextTok, IntTok(1)),       \* field 4 not a number
      Line(18, IntTok(1), DecTok(50001), IntTok(1)), \* field 4 not an integer
      Line(18, IntTok(1), IntTok(2), TextTok) }      \* field 14 not a number

FeedLines == WellFormedLines \cup BadLines

SeqsUpTo(S, n) == UNION {[1..k -> S] : k \in 0..n}

\* The feeds: the empty text, or a header followed by up to MaxRecords lines.
Feeds == {<<>>} \cup {<<HeaderLine>> \o ls : ls \in SeqsUpTo(FeedLines, MaxRecords)}

(***************************************************************************)
(* identify_exon_edges                                                     *)
(***************************************************************************)
Threshold == 50000

\* junction_data.strip().split('\n'): the empty text splits into one empty line.
SplitLines(text) == IF text = <<>> THEN <<BlankLine>> ELSE text

\* [1:], which drops the first line whatever it is.
DataLinesKeepHeader(text) == SplitLines(text)

DataLines(text) == Tail(SplitLines(text))

\* What (int(j[3]), int(j[4]), float(j[14])) raises on a line, in evaluation order.
LineError(l) ==
    IF l.nf <= 3 THEN "IndexError"
    ELSE IF ~IntOk(l.f3) THEN "ValueError"
    ELSE IF l.nf <= 4 THEN "IndexError"
    ELSE IF ~IntOk(l.f4) THEN "ValueError"
    ELSE IF l.nf <= 14 THEN "IndexError"
    ELSE IF ~FloatOk(l.f14) THEN "ValueError"
    ELSE "ok"

Junction(l) == [start |-> IntOf(l.f3), end |-> IntOf(l.f4), coverage |-> FloatOf(l.f14)]

\* The first line of ls that raises, or 0.
FirstBad(ls) ==
    IF \E k \in 1..Len(ls) : LineError(ls[k]) # "ok"
    THEN CHOOSE k \in 1..Len(ls) :
            /\ LineError(ls[k]) # "ok"
            /\ \A m \in 1..(k - 1) : LineError(ls[m]) = "ok"
    ELSE 0

\* Where a record goes in an already sorted list: after every record whose key
\* is not larger (stable), or, in the mutant, before the records of equal key.
InsertAtUnstable(sorted, r) ==
    Cardinality({k \in 1..Len(sorted) : sorted[k].start < r.start})

InsertAt(sorted, r) ==
    Cardinality({k \in 1..Len(sorted) : sorted[k].start <= r.start})

Insert(sorted, r) ==
    LET p == InsertAt(sorted, r)
    IN  SubSeq(sorted, 1, p) \o <<r>> \o SubSeq(sorted, p + 1, Len(sorted))

RECURSIVE SortFrom(_, _)
SortFrom(sorted, rest) ==
    IF rest = <<>> THEN sorted
    ELSE SortFrom(Insert(sorted, Head(rest)), Tail(rest))

NoSort(js) == js

\* junctions.sort(key=lambda x: x[0]): a stable sort on start.
SortByStart(js) == SortFrom(<<>>, js)

QualifiesOrEqual(coverage) == coverage >= Threshold

\* coverage > 0.5
Qualifies(coverage) == coverage > Threshold

MaxEnd(cur_end, end) == IF cur_end # None /\ cur_end[1] > end THEN cur_end ELSE Some(end)

\* current_end = end
NextEnd(cur_end, end) == Some(end)

\* The mutant of ScanRecord: the end of the closed interval is not reset.
ScanRecordKeepEnd(st, j) ==
    IF Qualifies(j.coverage)
    THEN [current_start |-> IF st.current_start = None THEN Some(j.start)
                            ELSE st.current_start,
          current_end   |-> NextEnd(st.current_end, j.end),
          exon_edges    |-> st.exon_edges]
    ELSE IF st.current_start # None
    THEN [current_start |-> None,
          current_end   |-> st.current_end,
          exon_edges    |-> Append(st.exon_edges,
                                   <<st.current_start[1], st.current_end[1]>>)]
    ELSE st

\* The body of the for loop, lines 57-64, on the record j.
ScanRecord(st, j) ==
    IF Qualifies(j.coverage)
    THEN [current_start |-> IF st.current_start = None THEN Some(j.start)
                            ELSE st.current_start,
          current_end   |-> NextEnd(st.current_end, j.end),
          exon_edges    |-> st.exon_edges]
    ELSE IF st.current_start # None
    THEN [current_start |-> None,
          current_end   |-> None,
          exon_edges    |-> Append(st.exon_edges,
                                   <<st.current_start[1], st.current_end[1]>>)]
    ELSE st

\* The mutant of CloseOpen: the last edge is put in front of the list.
CloseOpenPrepend(st) ==
    IF st.current_start # None
    THEN <<<<st.current_start[1], st.current_end[1]>>>> \o st.exon_edges
    ELSE st.exon_edges

\* Lines 65-66: the interval still open after the loop is appended.
CloseOpen(st) ==
    IF st.current_start # None
    THEN Append(st.exon_edges, <<st.current_start[1], st.current_end[1]>>)
    ELSE st.exon_edges

RECURSIVE ScanAll(_, _)
ScanAll(st, js) ==
    IF js = <<>> THEN st ELSE ScanAll(ScanRecord(st, Head(js)), Tail(js))

\* identify_exon_edges as its callers see it: the exception raised or None, and
\* the list returned.
IdentifyExonEdges(text) ==
    LET ls  == DataLines(text)
        bad == FirstBad(ls)
    IN  IF bad # 0
        THEN [raised |-> Some(LineError(ls[bad])), edges |-> <<>>]
        ELSE [raised |-> None,
              edges  |-> CloseOpen(ScanAll(
                            [current_start |-> None, current_end |-> None,
                             exon_edges |-> <<>>],
                            SortByStart([k \in 1..Len(ls) |-> Junction(ls[k])])))]

EdgeInit ==
    /\ junction_data \in Feeds
    /\ junctions = <<>>
    /\ idx = 1
    /\ current_start = None
    /\ current_end = None
    /\ exon_edges = <<>>
    /\ epc = "parse"
    /\ error = None

\* The mutant of ParseFeed: a line that does not convert is skipped.
ParseFeedSkipBad ==
    /\ epc = "parse"
    /\ junctions' =
          LET ok == SelectSeq(DataLines(junction_data), LAMBDA l : LineError(l) = "ok")
          IN  [k \in 1..Len(ok) |-> Junction(ok[k])]
    /\ epc' = "sort"
    /\ UNCHANGED <<junction_data, idx, current_start, current_end, exon_edges, error>>
    /\ UNCHANGED <<parseVars, abundVars, batchVars>>

\* Lines 49-50: split the feed, drop the first line, convert the fields.
ParseFeed ==
    /\ epc = "parse"
    /\ LET ls  == DataLines(junction_data)
           bad == FirstBad(ls)
       IN  IF bad = 0
           THEN /\ junctions' = [k \in 1..Len(ls) |-> Junction(ls[k])]
                /\ epc' = "sort"
                /\ error' = error
           ELSE /\ junctions' = junctions
                /\ epc' = "raised"
                /\ error' = Some(LineError(ls[bad]))
    /\ UNCHANGED <<junction_data, idx, current_start, current_end, exon_edges>>
    /\ UNCHANGED <<parseVars, abundVars, batchVars>>

\* Line 51.
SortJunctions ==
    /\ epc = "sort"
    /\ junctions' = SortByStart(junctions)
    /\ epc' = "scan"
    /\ UNCHANGED <<junction_data, idx, current_start, current_end, exon_edges, error>>
    /\ UNCHANGED <<parseVars, abundVars, batchVars>>

\* Lines 56-64: one iteration of the for loop.
ScanStep ==
    /\ epc = "scan"
    /\ idx <= Len(junctions)
    /\ LET st == ScanRecord([current_start |-> current_start,
                             current_end |-> current_end,
                             exon_edges |-> exon_edges], junctions[idx])
       IN  /\ current_start' = st.current_start
           /\ current_end' = st.current_end
           /\ exon_edges' = st.exon_edges
    /\ idx' = idx + 1
    /\ UNCHANGED <<junction_data, junctions, epc, error>>
    /\ UNCHANGED <<parseVars, abundVars, batchVars>>

\* The loop is exhausted.
ScanEnd ==
    /\ epc = "scan"
    /\ idx > Len(junctions)
    /\ epc' = "final"
    /\ UNCHANGED <<junction_data, junctions, idx, current_start, current_end,
                   exon_edges, error>>
    /\ UNCHANGED <<parseVars, abundVars, batchVars>>

\* Lines 65-67: append the interval still open and return.
Finish ==
    /\ epc = "final"
    /\ exon_edges' = CloseOpen([current_start |-> current_start,
                                current_end |-> current_end,
                                exon_edges |-> exon_edges])
    /\ epc' = "done"
    /\ UNCHANGED <<junction_data, junctions, idx, current_start, current_end, error>>
    /\ UNCHANGED <<parseVars, abundVars, batchVars>>

EdgeNext == ParseFeed \/ SortJunctions \/ ScanStep \/ ScanEnd \/ Finish

(***************************************************************************)
(* parse_genomic_coordinate                                                *)
(***************************************************************************)
DigitChars == <<"0", "1", "2", "3", "4", "5", "6", "7", "8", "9">>

\* \d (of the characters of the model)
Digits == {DigitChars[k] : k \in 1..Len(DigitChars)}

\* \s (of the characters of the model): the space and the line feed
Whitespace == {"SP", "LF"}

Alphabet == Digits \cup Whitespace \cup {"c", "h", "r", "x", ":", "-", "_", "+"}

\* \S
NonSpace == Alphabet \ Whitespace

DigitVal(c) == (CHOOSE k \in 1..Len(DigitChars) : DigitChars[k] = c) - 1

\* int(s) of a string of digits, read from the left.
RECURSIVE IntFrom(_, _)
IntFrom(acc, ds) ==
    IF ds = <<>> THEN acc ELSE IntFrom(acc * 10 + DigitVal(Head(ds)), Tail(ds))

PyInt(ds) == IntFrom(0, ds)

\* A greedy X+ from position i: the first position at or after i whose character
\* is not of the class (Len(s) + 1 when there is none).
RECURSIVE SpanEnd(_, _, _)
SpanEnd(s, i, class) ==
    IF i <= Len(s) /\ s[i] \in class THEN SpanEnd(s, i + 1, class) ELSE i

IsAt(s, i, c) == i <= Len(s) /\ s[i] = c

\* $ without re.MULTILINE: the end of the string, or just before a line feed
\* that ends the string.
AtDollar(s, p) == p = Len(s) + 1 \/ (p = Len(s) /\ s[p] = "LF")

\* re.match(r'^(chr\d+):(\d+)-(\d+)_(\S+)$', s): None, or the four groups. The
\* classes are followed by characters outside them, so the greedy match is the
\* only one the backtracking can find.
ReMatch(s) ==
    LET p1 == SpanEnd(s, 4, Digits)
        p2 == SpanEnd(s, p1 + 1, Digits)
        p3 == SpanEnd(s, p2 + 1, Digits)
        p4 == SpanEnd(s, p3 + 1, NonSpace)
    IN  IF /\ Len(s) >= 3
           /\ SubSeq(s, 1, 3) = <<"c", "h", "r">>
           /\ p1 > 4
           /\ IsAt(s, p1, ":")
           /\ p2 > p1 + 1
           /\ IsAt(s, p2, "-")
           /\ p3 > p2 + 1
           /\ IsAt(s, p3, "_")
           /\ p4 > p3 + 1
           /\ AtDollar(s, p4)
        THEN Some(<<SubSeq(s, 1, p1 - 1), SubSeq(s, p1 + 1, p2 - 1),
                    SubSeq(s, p2 + 1, p3 - 1), SubSeq(s, p3 + 1, p4 - 1)>>)
        ELSE None

\* The tuple returned on a match.
ParsedTuple(groups) ==
    [chromosome |-> groups[1], start |-> PyInt(groups[2]),
     end |-> PyInt(groups[3]), strand |-> groups[4]]

InvalidText == "Invalid genomic coordinate format"

Variants == {"Genomic_Analysis_Tool", "Genomic_Anlysis_Tool_V2", "Analysis_Plot"}

\* The strings handed to the parser: eight parts (the prefix, the digits of the
\* sequence name, the colon, the start, the hyphen, the end, the underscore and
\* the strand), all well formed or exactly one of them not.
DigitSample == {"0", "7"}

DigitGroups == SeqsUpTo(DigitSample, MaxDigits) \ {<<>>}

GoodParts ==
    << {<<"c", "h", "r">>}, {<<"1">>, <<"1", "8">>}, {<<":">>}, DigitGroups,
       {<<"-">>}, DigitGroups, {<<"_">>}, {<<"+">>, <<"-">>, <<"x", "+">>} >>

BadParts ==
    << {<<"c", "h">>, <<"SP", "c", "h", "r">>}, {<<>>, <<"x">>}, {<<>>},
       {<<>>, <<"1", "x">>}, {<<"_">>}, {<<>>, <<"1", "x">>}, {<<>>},
       {<<>>, <<"SP">>, <<"+", "SP">>, <<"+", "LF">>, <<"+", "LF", "LF">>} >>

\* The strings whose part d is defective (d = 0: none is).
StringsWithDefect(d) ==
    LET P(k) == IF k = d THEN BadParts[k] ELSE GoodParts[k]
    IN  { p1 \o p2 \o p3 \o p4 \o p5 \o p6 \o p7 \o p8 :
            p1 \in P(1), p2 \in P(2), p3 \in P(3), p4 \in P(4),
            p5 \in P(5), p6 \in P(6), p7 \in P(7), p8 \in P(8) }

LocusStrings == UNION {StringsWithDefect(d) : d \in 0..8}

ParserInit ==
    /\ variant \in Variants
    /\ genomic_coordinate \in LocusStrings
    /\ ppc = "call"
    /\ parse_return = None
    /\ parse_message = None
    /\ exit_code = None

\* The if branch: the pattern matched, the tuple is returned.
ParseMatched ==
    /\ ppc = "call"
    /\ ReMatch(genomic_coordinate) # None
    /\ parse_return' = Some(ParsedTuple(ReMatch(genomic_coordinate)[1]))
    /\ ppc' = "returned"
    /\ UNCHANGED <<variant, genomic_coordinate, parse_message, exit_code>>
    /\ UNCHANGED <<edgeVars, abundVars, batchVars>>

\* The else branch: a fixed message, then sys.exit(1), or in Analysis_Plot.py
\* the return of None.
ParseFailed ==
    /\ ppc = "call"
    /\ ReMatch(genomic_coordinate) = None
    /\ parse_message' =
          Some([channel |-> IF variant = "Genomic_Anlysis_Tool_V2" THEN "messagebox"
                            ELSE "stdout",
                text |-> InvalidText])
    /\ IF variant = "Analysis_Plot"
       THEN /\ ppc' = "returned"
            /\ exit_code' = exit_code
       ELSE /\ ppc' = "exited"
            /\ exit_code' = Some(1)
    /\ UNCHANGED <<variant, genomic_coordinate, parse_return>>
    /\ UNCHANGED <<edgeVars, abundVars, batchVars>>

ParserNext == ParseMatched \/ ParseFailed

(***************************************************************************)
(* measure_transcription_abundance                                         *)
(***************************************************************************)
\* A per-base value is None (absent) or a number.
ValueSample == {None, Some(3), Some(5)}

ValueLists ==
    SeqsUpTo(ValueSample, MaxValues) \cup {<<Some(5), None, Some(3), None>>}

\* A coverage source: whether pyBigWig.open gives a file, and what values() of
\* the file returns for the interval of the locus.
Sources ==
    {[opens |-> TRUE, values |-> vs] : vs \in ValueLists}
        \cup {[opens |-> FALSE, values |-> <<>>]}

GoodLocus == <<"c", "h", "r", "1", ":", "0", "-", "7", "_", "+">>

BadLocus == <<"c", "h", "r", "1", ":", "0", "-", "7">>

PresentUntilAbsent(values) ==
    SubSeq(values, 1, SpanEnd(values, 1, {Some(3), Some(5)}) - 1)

\* filter(lambda x: x is not None, values)
PresentValues(values) == SelectSeq(values, LAMBDA x : x # None)

\* sum(...): from 0, left to right.
RECURSIVE PySum(_, _)
PySum(acc, xs) == IF xs = <<>> THEN acc ELSE PySum(acc + Head(xs)[1], Tail(xs))

\* Lines 79-83: an empty list of values gives 0.
AbundanceOf(values) ==
    IF values # <<>> THEN PySum(0, PresentValues(values)) ELSE 0

AbundInit ==
    /\ genomic_coordinate \in {GoodLocus, BadLocus}
    /\ bigwig_files \in SeqsUpTo(Sources, MaxFiles)
    /\ abundance = <<>>
    /\ ai = 1
    /\ apc = "parse"
    /\ variant = "Genomic_Analysis_Tool"
    /\ ppc = "idle"
    /\ parse_return = None
    /\ parse_message = None
    /\ exit_code = None

\* Line 71, the locus parses.
MeasureParsed ==
    /\ apc = "parse"
    /\ ReMatch(genomic_coordinate) # None
    /\ parse_return' = Some(ParsedTuple(ReMatch(genomic_coordinate)[1]))
    /\ apc' = "loop"
    /\ UNCHANGED <<bigwig_files, abundance, ai>>
    /\ UNCHANGED <<variant, genomic_coordinate, ppc, parse_message, exit_code>>
    /\ UNCHANGED <<edgeVars, batchVars>>

\* Line 71, the locus does not parse: the parser ends the process.
MeasureParseFailed ==
    /\ apc = "parse"
    /\ ReMatch(genomic_coordinate) = None
    /\ parse_message' = Some([channel |-> "stdout", text |-> InvalidText])
    /\ exit_code' = Some(1)
    /\ apc' = "exited"
    /\ UNCHANGED <<bigwig_files, abundance, ai>>
    /\ UNCHANGED <<variant, genomic_coordinate, ppc, parse_return>>
    /\ UNCHANGED <<edgeVars, batchVars>>

\* Lines 74-83: one iteration on a file that opens.
MeasureFile ==
    /\ apc = "loop"
    /\ ai <= Len(bigwig_files)
    /\ bigwig_files[ai].opens
    /\ abundance' = Append(abundance, AbundanceOf(bigwig_files[ai].values))
    /\ ai' = ai + 1
    /\ UNCHANGED <<bigwig_files, apc>>
    /\ UNCHANGED <<parseVars, edgeVars, batchVars>>

\* Lines 84-86: the file is None, the process ends.
MeasureOpenFailed ==
    /\ apc = "loop"
    /\ ai <= Len(bigwig_files)
    /\ ~bigwig_files[ai].opens
    /\ parse_message' = Some([channel |-> "stdout", text |-> "Failed to open BigWig file"])
    /\ exit_code' = Some(1)
    /\ apc' = "exited"
    /\ UNCHANGED <<bigwig_files, abundance, ai>>
    /\ UNCHANGED <<variant, genomic_coordinate, ppc, parse_return>>
    /\ UNCHANGED <<edgeVars, batchVars>>

\* Line 87.
MeasureReturn ==
    /\ apc = "loop"
    /\ ai > Len(bigwig_files)
    /\ apc' = "done"
    /\ UNCHANGED <<bigwig_files, abundance, ai>>
    /\ UNCHANGED <<parseVars, edgeVars, batchVars>>

AbundNext ==
    MeasureParsed \/ MeasureParseFailed \/ MeasureFile \/ MeasureOpenFailed
        \/ MeasureReturn

(***************************************************************************)
(* analyze_genomic_data of Genomic_Anlysis_Tool_V2.py (the batch)          *)
(***************************************************************************)
BatchLoci == {GoodLocus, BadLocus}

\* What requests.get answers: a status and, with 200, a feed.
BatchFeeds ==
    { <<HeaderLine>>,
      <<HeaderLine, Line(18, IntTok(1), IntTok(2), IntTok(1))>>,
      <<HeaderLine, Line(14, IntTok(1), IntTok(2), IntTok(1))>> }

Responses ==
    {[status |-> 200, text |-> f] : f \in BatchFeeds}
        \cup {[status |-> 500, text |-> <<>>]}

BatchSources ==
    { [opens |-> TRUE, values |-> <<Some(5), None>>],
      [opens |-> FALSE, values |-> <<>>] }

\* Lines 208-210.
NumPlots == Len(genomic_coordinates)
NumCols == IF NumPlots < 3 THEN NumPlots ELSE 3
NumRows == ((NumPlots - 1) \div 3) + 1

\* plt.subplots returns a two-dimensional array of axes only for a grid of
\* several rows and several columns; axs[row, col] raises on anything else.
AxsIs2D == NumRows > 1 /\ NumCols > 1

ErrorEntry(i) == [item |-> i, kind |-> "error", value |-> <<>>]

BatchInit ==
    /\ genomic_coordinates \in SeqsUpTo(BatchLoci, MaxBatch) \ {<<>>}
    /\ analyze_option \in {"Exon Edge Finder", "Genomic Abundance Analyzer"}
    /\ bi = 1
    /\ output_text = <<>>
    /\ plotted = {}
    /\ bpc = "analyse"
    /\ variant = "Genomic_Anlysis_Tool_V2"
    /\ genomic_coordinate = <<>>
    /\ ppc = "idle"
    /\ parse_return = None
    /\ parse_message = None
    /\ exit_code = None

BatchExit(text) ==
    /\ parse_message' = Some([channel |-> "messagebox", text |-> text])
    /\ exit_code' = Some(1)
    /\ bpc' = "exited"
    /\ UNCHANGED <<genomic_coordinates, analyze_option, bi, output_text, plotted>>
    /\ UNCHANGED <<variant, genomic_coordinate, ppc, parse_return>>
    /\ UNCHANGED <<edgeVars, abundVars>>

\* The iteration goes on to the next item, with its entry in the window.
BatchContinue(entry) ==
    /\ output_text' = Append(output_text, entry)
    /\ bi' = bi + 1
    /\ bpc' = "analyse"
    /\ UNCHANGED <<genomic_coordinates, analyze_option, plotted>>
    /\ UNCHANGED <<parseVars, edgeVars, abundVars>>

\* Lines 216 or 224: the locus does not parse. The parser calls sys.exit(1);
\* SystemExit is no Exception, so line 231 does not catch it and the process
\* ends.
ItemBadLocus ==
    /\ bpc = "analyse"
    /\ bi <= Len(genomic_coordinates)
    /\ ReMatch(genomic_coordinates[bi]) = None
    /\ BatchExit(InvalidText)

\* Line 216: the service answers with another status than 200 (lines 159-161).
ItemFetchFailed ==
    /\ bpc = "analyse"
    /\ bi <= Len(genomic_coordinates)
    /\ ReMatch(genomic_coordinates[bi]) # None
    /\ analyze_option = "Exon Edge Finder"
    /\ \E resp \in Responses : resp.status # 200
    /\ BatchExit("Failed to retrieve junction data from Snaptron")

\* Line 217 raises on a line of the feed; line 231 catches it.
ItemFeedRaised ==
    /\ bpc = "analyse"
    /\ bi <= Len(genomic_coordinates)
    /\ ReMatch(genomic_coordinates[bi]) # None
    /\ analyze_option = "Exon Edge Finder"
    /\ \E resp \in Responses :
          /\ resp.status = 200
          /\ IdentifyExonEdges(resp.text).raised # None
          /\ BatchContinue(ErrorEntry(bi))

\* Lines 216-221: the edges are written to the window.
ItemEdgesReported ==
    /\ bpc = "analyse"
    /\ bi <= Len(genomic_coordinates)
    /\ ReMatch(genomic_coordinates[bi]) # None
    /\ analyze_option = "Exon Edge Finder"
    /\ \E resp \in Responses :
          /\ resp.status = 200
          /\ IdentifyExonEdges(resp.text).raised = None
          /\ output_text' = Append(output_text,
                [item |-> bi, kind |-> "edges",
                 value |-> IdentifyExonEdges(resp.text).edges])
    /\ bpc' = "plot"
    /\ UNCHANGED <<genomic_coordinates, analyze_option, bi, plotted>>
    /\ UNCHANGED <<parseVars, edgeVars, abundVars>>

\* Lines 223-225: the abundance of the chosen file is written to the window.
ItemAbundanceReported ==
    /\ bpc = "analyse"
    /\ bi <= Len(genomic_coordinates)
    /\ ReMatch(genomic_coordinates[bi]) # None
    /\ analyze_option = "Genomic Abundance Analyzer"
    /\ \E src \in BatchSources :
          /\ src.opens
          /\ output_text' = Append(output_text,
                [item |-> bi, kind |-> "abundance",
                 value |-> <<AbundanceOf(src.values)>>])
    /\ bpc' = "plot"
    /\ UNCHANGED <<genomic_coordinates, analyze_option, bi, plotted>>
    /\ UNCHANGED <<parseVars, edgeVars, abundVars>>

\* Line 224, the file does not open (lines 84-86 of the measure).
ItemOpenFailed ==
    /\ bpc = "analyse"
    /\ bi <= Len(genomic_coordinates)
    /\ ReMatch(genomic_coordinates[bi]) # None
    /\ analyze_option = "Genomic Abundance Analyzer"
    /\ \E src \in BatchSources : ~src.opens
    /\ BatchExit("Failed to open BigWig file")

\* Line 230: axs[row, col] raises, line 231 catches it.
PlotNoAxes ==
    /\ bpc = "plot"
    /\ ~AxsIs2D
    /\ BatchContinue(ErrorEntry(bi))

\* Line 184: the second request of the item fails.
PlotFetchFailed ==
    /\ bpc = "plot"
    /\ AxsIs2D
    /\ \E resp \in Responses : resp.status # 200
    /\ BatchExit("Failed to retrieve junction data from Snaptron")

\* Lines 185-186 raise on a line of the feed.
PlotFeedRaised ==
    /\ bpc = "plot"
    /\ AxsIs2D
    /\ \E resp \in Responses :
          /\ resp.status = 200
          /\ FirstBad(DataLines(resp.text)) # 0
          /\ BatchContinue(ErrorEntry(bi))

\* Lines 183-195: the plot of the item is drawn.
PlotDrawn ==
    /\ bpc = "plot"
    /\ AxsIs2D
    /\ \E resp \in Responses :
          /\ resp.status = 200
          /\ FirstBad(DataLines(resp.text)) = 0
    /\ plotted' = plotted \cup {bi}
    /\ bi' = bi + 1
    /\ bpc' = "analyse"
    /\ UNCHANGED <<genomic_coordinates, analyze_option, output_text>>
    /\ UNCHANGED <<parseVars, edgeVars, abundVars>>

\* The list is exhausted: lines 234-240.
BatchEnd ==
    /\ bpc = "analyse"
    /\ bi > Len(genomic_coordinates)
    /\ bpc' = "done"
    /\ UNCHANGED <<genomic_coordinates, analyze_option, bi, output_text, plotted>>
    /\ UNCHANGED <<parseVars, edgeVars, abundVars>>

BatchNext ==
    \/ ItemBadLocus \/ ItemFetchFailed \/ ItemFeedRaised \/ ItemEdgesReported
    \/ ItemAbundanceReported \/ ItemOpenFailed
    \/ PlotNoAxes \/ PlotFetchFailed \/ PlotFeedRaised \/ PlotDrawn
    \/ BatchEnd

\* The parts of the state a specification leaves alone.
EdgeIdle ==
    /\ junction_data = <<>>
    /\ junctions = <<>>
    /\ idx = 1
    /\ current_start = None
    /\ current_end = None
    /\ exon_edges = <<>>
    /\ epc = "idle"
    /\ error = None

ParserIdle ==
    /\ variant = "Genomic_Analysis_Tool"
    /\ genomic_coordinate = <<>>
    /\ ppc = "idle"
    /\ parse_return = None
    /\ parse_message = None
    /\ exit_code = None

AbundIdle ==
    /\ bigwig_files = <<>>
    /\ abundance = <<>>
    /\ ai = 1
    /\ apc = "idle"

BatchIdle ==
    /\ genomic_coordinates = <<>>
    /\ analyze_option = "Exon Edge Finder"
    /\ bi = 1
    /\ output_text = <<>>
    /\ plotted = {}
    /\ bpc = "idle"

InitEdges == EdgeInit /\ ParserIdle /\ AbundIdle /\ BatchIdle

InitParser == ParserInit /\ EdgeIdle /\ AbundIdle /\ BatchIdle

InitAbund == AbundInit /\ EdgeIdle /\ BatchIdle

InitBatch == BatchInit /\ EdgeIdle /\ AbundIdle

SpecBatch == InitBatch /\ [][BatchNext]_vars

SpecEdges == InitEdges /\ [][EdgeNext]_vars

SpecParser == InitParser /\ [][ParserNext]_vars

SpecAbund == InitAbund /\ [][AbundNext]_vars

(***************************************************************************)
(* What the claims speak of: the records of the feed in input order, their *)
(* stable order by start (by rank), and the runs of qualifying records.    *)
(***************************************************************************)
\* Every data line of the feed is a well-formed junction record.
WellFormedFeed ==
    \A k \in 2..Len(junction_data) : junction_data[k] \in WellFormedLines

\* The records in input order (of a well-formed feed).
InputRecords ==
    [k \in 1..(IF junction_data = <<>> THEN 0 ELSE Len(junction_data) - 1) |->
        [start    |-> junction_data[k + 1].f3.val,
         end      |-> junction_data[k + 1].f4.val,
         coverage |-> IF junction_data[k + 1].f14.kind = "int"
                      THEN junction_data[k + 1].f14.val * 100000
                      ELSE junction_data[k + 1].f14.val]]

\* The place of record i in the ascending order by start, ties in input order.
RefRank(rs, i) ==
    1 + Cardinality({j \in 1..Len(rs) :
                        \/ rs[j].start < rs[i].start
                        \/ (rs[j].start = rs[i].start /\ j < i)})

RefSorted(rs) ==
    [p \in 1..Len(rs) |-> rs[CHOOSE i \in 1..Len(rs) : RefRank(rs, i) = p]]

\* The reference scan: open is <<>> or the open interval <<start, end>>.
RECURSIVE RefScan(_, _, _)
RefScan(rs, open, edges) ==
    IF rs = <<>>
    THEN IF open = <<>> THEN edges ELSE Append(edges, open)
    ELSE LET r == Head(rs)
         IN  IF r.coverage > 50000
             THEN RefScan(Tail(rs),
                          <<IF open = <<>> THEN r.start ELSE open[1], r.end>>,
                          edges)
             ELSE RefScan(Tail(rs), <<>>,
                          IF open = <<>> THEN edges ELSE Append(edges, open))

Above(s, k) == s[k].coverage > 50000

\* a..b is a maximal run of records of s, adjacent in s, all above the threshold.
IsRun(s, a, b) ==
    /\ a <= b
    /\ \A k \in a..b : Above(s, k)
    /\ a = 1 \/ ~Above(s, a - 1)
    /\ b = Len(s) \/ ~Above(s, b + 1)

RunSet(s) == {ab \in (1..Len(s)) \X (1..Len(s)) : IsRun(s, ab[1], ab[2])}

\* The k-th run of s, in the order of s.
RunAt(s, k) ==
    CHOOSE r \in RunSet(s) : Cardinality({q \in RunSet(s) : q[1] < r[1]}) = k - 1

SetMin(S) == CHOOSE x \in S : \A y \in S : x <= y
SetMax(S) == CHOOSE x \in S : \A y \in S : x >= y

(***************************************************************************)
(* C1. On every well-formed feed identify_exon_edges does not raise and    *)
(* returns the list of the reference algorithm: records in ascending order *)
(* of start with ties in input order, one scan with at most one open       *)
(* interval, opened at the first record above 0.5, its end set by every    *)
(* further such record, closed at the first other record, and appended at  *)
(* the end when still open.                                                *)
(***************************************************************************)
C1_ReferenceAlgorithm ==
    WellFormedFeed =>
        /\ epc # "raised"
        /\ epc = "done" =>
              exon_edges = RefScan(RefSorted(InputRecords), <<>>, <<>>)

\* A returned list of two edges from a feed in which two records share a start
\* and the later of the two has the smaller end.
C1_Witness ==
    /\ epc = "done"
    /\ Len(exon_edges) = 2
    /\ \E a, b \in 1..Len(InputRecords) :
          /\ a < b
          /\ InputRecords[a].start = InputRecords[b].start
          /\ InputRecords[a].end > InputRecords[b].end
          /\ InputRecords[a].coverage > 50000
          /\ InputRecords[b].coverage > 50000

(***************************************************************************)
(* C2. The threshold test is strict: a step of the scan on a record whose  *)
(* coverage is exactly 0.5 leaves no interval open, and appends the open   *)
(* interval if there was one; a step on a record whose coverage is above   *)
(* 0.5 (0.50001 included) opens an interval at its start if none is open   *)
(* and sets the end of the open interval to its end, appending nothing.    *)
(***************************************************************************)
C2_StrictThreshold ==
    [][ (epc = "scan" /\ idx <= Len(junctions)) =>
          LET j == junctions[idx]
          IN  /\ j.coverage = 50000 =>
                    /\ current_start' = <<>>
                    /\ current_end' = <<>>
                    /\ exon_edges' =
                          IF current_start = <<>> THEN exon_edges
                          ELSE Append(exon_edges, <<current_start[1], current_end[1]>>)
              /\ j.coverage > 50000 =>
                    /\ current_start' =
                          IF current_start = <<>> THEN <<j.start>> ELSE current_start
                    /\ current_end' = <<j.end>>
                    /\ exon_edges' = exon_edges ]_vars

\* A record of coverage 0.50001 has opened an interval and the next record, of
\* coverage exactly 0.5, has closed it.
C2_Witness ==
    /\ epc = "scan"
    /\ idx = 3
    /\ junctions[1].coverage = 50001
    /\ junctions[2].coverage = 50000
    /\ exon_edges = <<<<junctions[1].start, junctions[1].end>>>>
    /\ current_start = <<>>

(***************************************************************************)
(* C3. There is one returned edge per run of qualifying records, and the   *)
(* end of an edge is the end of the last record of its run in sort order,  *)
(* also when an earlier record of the run has a larger end.                *)
(***************************************************************************)
C3_EndIsLastOfRun ==
    epc = "done" =>
        LET s == RefSorted(InputRecords)
        IN  /\ Len(exon_edges) = Cardinality(RunSet(s))
            /\ \A k \in 1..Len(exon_edges) :
                  exon_edges[k][2] = s[RunAt(s, k)[2]].end

\* A returned edge whose run holds a record with a larger end than the edge's.
C3_Witness ==
    /\ epc = "done"
    /\ LET s == RefSorted(InputRecords)
       IN  \E k \in 1..Len(exon_edges) :
              \E m \in RunAt(s, k)[1]..RunAt(s, k)[2] : s[m].end > exon_edges[k][2]

(***************************************************************************)
(* C4. Every returned edge is the outer bounds of its run: its start is    *)
(* the least start of the run's records and its end the greatest end among *)
(* the run's records.                                                      *)
(***************************************************************************)
C4_OuterBounds ==
    epc = "done" =>
        LET s == RefSorted(InputRecords)
        IN  /\ Len(exon_edges) = Cardinality(RunSet(s))
            /\ \A k \in 1..Len(exon_edges) :
                  LET run == RunAt(s, k)[1]..RunAt(s, k)[2]
                  IN  /\ exon_edges[k][1] = SetMin({s[m].start : m \in run})
                      /\ exon_edges[k][2] = SetMax({s[m].end : m \in run})

(***************************************************************************)
(* C5. When no record of the feed has a coverage above the threshold (an   *)
(* empty feed and a feed of the header alone included),                    *)
(* identify_exon_edges does not raise, runs to its return, and the list of *)
(* edges is empty.                                                         *)
(***************************************************************************)
NoneAbove ==
    /\ WellFormedFeed
    /\ \A k \in 1..Len(InputRecords) : ~(InputRecords[k].coverage > 50000)

C5_NoneAboveGivesEmpty ==
    NoneAbove =>
        /\ epc # "raised"
        /\ exon_edges = <<>>
        /\ epc = "done" \/ ENABLED EdgeNext

\* A return on a feed of two or more records, none above the threshold, one of
\* them exactly at it.
C5_Witness ==
    /\ epc = "done"
    /\ NoneAbove
    /\ Len(InputRecords) >= 2
    /\ \E k \in 1..Len(InputRecords) : InputRecords[k].coverage = 50000

(***************************************************************************)
(* C6. When the feed has records and all are above the threshold, one edge *)
(* is returned: from the start of the first record in sorted order to the  *)
(* end of the last record in sorted order.                                 *)
(***************************************************************************)
AllAbove ==
    /\ WellFormedFeed
    /\ Len(InputRecords) > 0
    /\ \A k \in 1..Len(InputRecords) : InputRecords[k].coverage > 50000

C6_AllAboveGivesOneEdge ==
    (AllAbove /\ epc = "done") =>
        LET s == RefSorted(InputRecords)
        IN  exon_edges = <<<<s[1].start, s[Len(s)].end>>>>

\* A return on a feed of three records, all above the threshold, that was not
\* in sorted order.
C6_Witness ==
    /\ epc = "done"
    /\ AllAbove
    /\ Len(InputRecords) = 3
    /\ InputRecords # RefSorted(InputRecords)
    /\ InputRecords[1].start > InputRecords[3].start

(***************************************************************************)
(* The form of a locus string, and the value of a string of digits.        *)
(***************************************************************************)
\* s is chr<digits>:<digits>-<digits>_<token>: the whole string, every group of
\* one character or more, the token without whitespace. i, j and k are the
\* places of the colon, the hyphen and the underscore.
FormAt(s, i, j, k) ==
    /\ Len(s) >= 3 /\ s[1] = "c" /\ s[2] = "h" /\ s[3] = "r"
    /\ 4 < i /\ i + 1 < j /\ j + 1 < k /\ k < Len(s)
    /\ s[i] = ":" /\ s[j] = "-" /\ s[k] = "_"
    /\ \A m \in 4..(i - 1) : s[m] \in Digits
    /\ \A m \in (i + 1)..(j - 1) : s[m] \in Digits
    /\ \A m \in (j + 1)..(k - 1) : s[m] \in Digits
    /\ \A m \in (k + 1)..Len(s) : s[m] \notin Whitespace

HasForm(s) ==
    \E i \in 1..Len(s) :
        /\ s[i] = ":"
        /\ \E j \in (i + 1)..Len(s) :
              /\ s[j] = "-"
              /\ \E k \in (j + 1)..Len(s) : FormAt(s, i, j, k)

RECURSIVE Pow10(_)
Pow10(n) == IF n = 0 THEN 1 ELSE 10 * Pow10(n - 1)

\* The base-10 value of the digits s[a..b]: the sum of digit times power of ten.
RECURSIVE Base10(_, _, _)
Base10(s, a, b) ==
    IF a > b THEN 0
    ELSE DigitVal(s[a]) * Pow10(b - a) + Base10(s, a + 1, b)

(***************************************************************************)
(* C7. parse_genomic_coordinate returns a tuple exactly on the strings of  *)
(* the form chr<digits>:<digits>-<digits>_<token>, and the tuple is then   *)
(* the sequence name, the base-10 values of the second and third groups of *)
(* digits, and the token unchanged.                                        *)
(***************************************************************************)
C7_ParsesExactlyTheForm ==
    ppc \in {"returned", "exited"} =>
        LET s == genomic_coordinate
        IN  /\ (parse_return # <<>>) <=> HasForm(s)
            /\ \A i \in 1..Len(s), j \in 1..Len(s), k \in 1..Len(s) :
                  (s[i] = ":" /\ s[j] = "-" /\ s[k] = "_" /\ FormAt(s, i, j, k)) =>
                      parse_return =
                          <<[chromosome |-> SubSeq(s, 1, i - 1),
                             start      |-> Base10(s, i + 1, j - 1),
                             end        |-> Base10(s, j + 1, k - 1),
                             strand     |-> SubSeq(s, k + 1, Len(s))]>>

(***************************************************************************)
(* C8. On a string that does not match the pattern the parse fails with an *)
(* InvalidCoordinateFormat failure that carries the string, raised to the  *)
(* caller: it neither returns nor ends the process.                        *)
(***************************************************************************)
C8_TypedFailureCarriesInput ==
    (ppc \notin {"idle", "call"} /\ ReMatch(genomic_coordinate) = <<>>) =>
        /\ ppc = "raised"
        /\ error = <<[type |-> "InvalidCoordinateFormat", input |-> genomic_coordinate]>>

(***************************************************************************)
(* C10. measure_transcription_abundance returns one abundance per source,  *)
(* in the order of the sources, each the sum of the present values the     *)
(* source returned for the interval: an absent value adds nothing and a    *)
(* source that returned no value gives 0.                                  *)
(***************************************************************************)
\* The sum over the places 1..n of vs, an absent value counting for zero.
RECURSIVE SumOfPresent(_, _)
SumOfPresent(vs, n) ==
    IF n = 0 THEN 0
    ELSE SumOfPresent(vs, n - 1) + (IF vs[n] = <<>> THEN 0 ELSE vs[n][1])

C10_AbundanceIsSumOfPresent ==
    /\ apc \in {"loop", "done"} =>
          /\ Len(abundance) = ai - 1
          /\ \A k \in 1..Len(abundance) :
                abundance[k] =
                    SumOfPresent(bigwig_files[k].values, Len(bigwig_files[k].values))
    /\ apc = "done" => Len(abundance) = Len(bigwig_files)

\* A return on two sources: the first with absent values among its values, the
\* second with no value at all.
C10_Witness ==
    /\ apc = "done"
    /\ Len(bigwig_files) = 2
    /\ bigwig_files[1].values = <<<<5>>, <<>>, <<3>>, <<>>>>
    /\ bigwig_files[2].values = <<>>
    /\ abundance = <<8, 0>>

(***************************************************************************)
(* C9. In a batch a malformed locus, wherever it stands in the list, gets  *)
(* an error entry of its own and does not end the batch: the loop goes on  *)
(* to the loci after it.                                                   *)
(***************************************************************************)
\* The batch is through with item k: it went on, or it ended there.
BatchThrough(k) == bi > k \/ (bi = k /\ bpc = "exited")

C9_BadLocusDoesNotAbortBatch ==
    \A k \in 1..Len(genomic_coordinates) :
        (~HasForm(genomic_coordinates[k]) /\ BatchThrough(k)) =>
            /\ \E n \in 1..Len(output_text) :
                  output_text[n].item = k /\ output_text[n].kind = "error"
            /\ ~(bpc = "exited" /\ bi = k)

(***************************************************************************)
(* C11. When a data line of the feed has fewer than 15 fields, or a value  *)
(* that is not a number in field 3, 4 or 14, identify_exon_edges raises an *)
(* error to its caller: it never goes on to sort and scan the other lines, *)
(* and it returns no edge.                                                 *)
(***************************************************************************)
MalformedLine(l) ==
    \/ l.nf < 15
    \/ l.f3.kind = "text"
    \/ l.f4.kind = "text"
    \/ l.f14.kind = "text"

HasMalformedLine ==
    \E k \in 2..Len(junction_data) : MalformedLine(junction_data[k])

C12_StartNotAfterEnd ==
    (ppc = "returned" /\ parse_return # <<>>) =>
        parse_return[1].start <= parse_return[1].end

(***************************************************************************)
(* C13. The list of edges only grows at its end, by the interval being     *)
(* closed, so the edges are returned in the order they were closed; and    *)
(* the starts of the edges never decrease along the list.                  *)
(***************************************************************************)
NonDecreasingStarts(es) ==
    \A k \in 1..(Len(es) - 1) : es[k][1] <= es[k + 1][1]

C13_EdgesInClosingOrder ==
    [][ /\ \/ exon_edges' = exon_edges
           \/ /\ current_start # <<>>
              /\ exon_edges' = Append(exon_edges, <<current_start[1], current_end[1]>>)
        /\ NonDecreasingStarts(exon_edges') ]_vars

\* Two edges returned, the second starting later, from a feed whose first
\* record starts after its last.
C13_Witness ==
    /\ epc = "done"
    /\ Len(exon_edges) = 2
    /\ exon_edges[1][1] < exon_edges[2][1]
    /\ InputRecords[1].start > InputRecords[Len(InputRecords)].start

(***************************************************************************)
(* C14. At every step of the scan current_start is None exactly when       *)
(* current_end is None; an edge is appended only from an open interval, so *)
(* it has no None bound; the start and the end of every edge are the start *)
(* and the end of records above 0.5; and a record not above 0.5 met while  *)
(* no interval is open changes neither the open interval nor the list.     *)
(***************************************************************************)
C14_State ==
    /\ (current_start = <<>>) <=> (current_end = <<>>)
    /\ \A k \in 1..Len(exon_edges) :
          /\ \E a \in 1..Len(junctions) :
                junctions[a].coverage > 50000 /\ junctions[a].start = exon_edges[k][1]
          /\ \E b \in 1..Len(junctions) :
                junctions[b].coverage > 50000 /\ junctions[b].end = exon_edges[k][2]

C14_ScanStateConsistent ==
    [][ /\ C14_State
        /\ C14_State'
        /\ exon_edges' # exon_edges =>
              /\ current_start # <<>>
              /\ current_end # <<>>
              /\ exon_edges' = Append(exon_edges, <<current_start[1], current_end[1]>>)
        /\ ( /\ epc = "scan"
             /\ idx <= Len(junctions)
             /\ ~(junctions[idx].coverage > 50000)
             /\ current_start = <<>> ) =>
                 /\ current_start' = <<>>
                 /\ current_end' = <<>>
                 /\ exon_edges' = exon_edges ]_vars

\* A record at the threshold has closed the interval of the first record, and
\* the next record, not above the threshold either, has changed nothing.
C14_Witness ==
    /\ epc = "scan"
    /\ idx = 4
    /\ junctions[1].coverage > 50000
    /\ junctions[2].coverage = 50000
    /\ junctions[3].coverage = 50000
    /\ exon_edges = <<<<junctions[1].start, junctions[1].end>>>>
    /\ current_start = <<>>
    /\ current_end = <<>>

=============================================================================
